---- MODULE Spec2Model ----
(***************************************************************************)
(* Model of src/src/main.rs: a markdown blog server.  main() loads the     *)
(* posts of the "content" directory into a HashMap guarded by a Mutex, a   *)
(* background task (watch_files) reloads the map on filesystem events, and *)
(* the HTTP handlers home, search and post_detail read the map.            *)
(*                                                                         *)
(* Strings are sequences of character codes.  Option<T> is a sequence of   *)
(* length 0 (None) or 1 (Some).                                            *)
(***************************************************************************)
EXTENDS Naturals, Integers, Sequences, FiniteSets, TLC

(* ------------------------------ bounds --------------------------------- *)
\* number of filesystem operations the environment performs in one run of Spec
MaxOps == 2
\* number of concurrent request-handling tasks
NumReaders == 1
\* length of the sleep of watch_files (100 ms) in clock ticks of the model
DebounceTicks == 2

(* ------------------------------ strings -------------------------------- *)
\* U+FFFD, what to_string_lossy puts in place of a byte that is not UTF-8
REPLACEMENT == 65533

IsWhite(c) == c \in {9, 10, 13, 32}

RECURSIVE TrimStart(_)
TrimStart(s) ==
    IF s = <<>> THEN s
    ELSE IF IsWhite(Head(s)) THEN TrimStart(Tail(s)) ELSE s

RECURSIVE TrimEnd(_)
TrimEnd(s) ==
    IF s = <<>> THEN s
    ELSE IF IsWhite(s[Len(s)]) THEN TrimEnd(SubSeq(s, 1, Len(s) - 1)) ELSE s

\* str::trim
Trim(s) == TrimEnd(TrimStart(s))

\* String::cmp is byte-wise lexicographic; StrLess(a, b) is a.cmp(b) = Less
RECURSIVE StrLess(_, _)
StrLess(a, b) ==
    IF b = <<>> THEN FALSE
    ELSE IF a = <<>> THEN TRUE
    ELSE IF Head(a) < Head(b) THEN TRUE
    ELSE IF Head(a) > Head(b) THEN FALSE
    ELSE StrLess(Tail(a), Tail(b))

\* OsStr::to_string_lossy on a file stem: ASCII bytes are kept, the bytes
\* 0xFE and 0xFF (never valid in UTF-8) each become U+FFFD.  File names of
\* the model use no other byte >= 128.
ToStringLossy(bytes) ==
    [i \in 1..Len(bytes) |-> IF bytes[i] >= 128 THEN REPLACEMENT ELSE bytes[i]]

\* pulldown_cmark html::push_html, on the bodies of the model: plain words
\* without markdown syntax render as one paragraph, an empty body as nothing.
PushHtml(content) ==
    IF content = <<>> THEN <<>>
    ELSE <<60, 112, 62>> \o content \o <<60, 47, 112, 62, 10>>

(* --------------------------- the content directory --------------------- *)
\* A file name: the bytes of its stem and its extension (<<>>: none).
NameA   == [stem |-> <<97>>,  ext |-> "md"]     \* a.md
NameFE  == [stem |-> <<254>>, ext |-> "md"]     \* \xFE.md
NameFF  == [stem |-> <<255>>, ext |-> "md"]     \* \xFF.md
NameTxt == [stem |-> <<97>>,  ext |-> "txt"]    \* a.txt
FileNames == {NameA, NameFE, NameFF, NameTxt}

\* A file's text, as the segments that "---" separates.  The metadata
\* segment is given by what serde_yaml makes of it: whether it is a YAML
\* mapping of the right types, and the fields it has.
Meta(ok, title, date, tags) ==
    [yaml |-> ok, title |-> title, date |-> date, tags |-> tags]

TagX == <<120>>
TagY == <<121>>

\* 1: "Ra", date "2", tags [x]      2: "Go", date "19", no tags
\* 3: "Go", date "2", tags [y, x]   4: two segments only
\* 5: no title                      6: metadata that is not valid YAML
\* 7: no date                       8: bytes that are not UTF-8
\* (the body of 3 itself contains "---": ra---i)
Catalogue == <<
    [utf8 |-> TRUE, segs |-> << <<>>, Meta(TRUE, <<<<82, 97>>>>, <<<<50>>>>, <<<<TagX>>>>), <<10, 104, 105, 10>> >>],
    [utf8 |-> TRUE, segs |-> << <<>>, Meta(TRUE, <<<<71, 111>>>>, <<<<49, 57>>>>, <<>>), <<32, 82, 97>> >>],
    [utf8 |-> TRUE, segs |-> << <<>>, Meta(TRUE, <<<<71, 111>>>>, <<<<50>>>>, <<<<TagY, TagX>>>>), <<114, 97>>, <<105>> >>],
    [utf8 |-> TRUE, segs |-> << <<>>, Meta(TRUE, <<<<82, 97>>>>, <<<<50>>>>, <<>>) >>],
    [utf8 |-> TRUE, segs |-> << <<>>, Meta(TRUE, <<>>, <<<<50>>>>, <<>>), <<104, 105>> >>],
    [utf8 |-> TRUE, segs |-> << <<>>, Meta(FALSE, <<<<82, 97>>>>, <<<<50>>>>, <<>>), <<104, 105>> >>],
    [utf8 |-> TRUE, segs |-> << <<>>, Meta(TRUE, <<<<82, 97>>>>, <<>>, <<<<TagX>>>>), <<104, 105>> >>],
    [utf8 |-> FALSE, segs |-> << <<>>, Meta(TRUE, <<<<82, 97>>>>, <<<<50>>>>, <<>>), <<104, 105>> >>] >>

NumContents == Len(Catalogue)
\* fs[name] = 0: no such file; k > 0: the file holds Catalogue[k]
NoFile == 0

(* ------------------------------ parse_post ----------------------------- *)
\* raw.splitn(3, "---"): at most three parts, the third keeps the rest
RECURSIVE JoinDashes(_)
JoinDashes(segs) ==
    IF Len(segs) = 1 THEN segs[1]
    ELSE segs[1] \o <<45, 45, 45>> \o JoinDashes(Tail(segs))

Splitn3(segs) ==
    IF Len(segs) <= 3 THEN segs
    ELSE <<segs[1], segs[2], JoinDashes(SubSeq(segs, 3, Len(segs)))>>

\* serde_yaml::from_str::<FrontMatter>: title and date are required
FromStr(meta) ==
    IF meta.yaml /\ meta.title # <<>> /\ meta.date # <<>>
    THEN << [title |-> meta.title[1], date |-> meta.date[1], tags |-> meta.tags] >>
    ELSE <<>>

parse_post(name, file) ==
    IF ~file.utf8 THEN <<>>
    ELSE LET parts == Splitn3(file.segs) IN
         IF Len(parts) < 3 THEN <<>>
         ELSE LET content == Trim(parts[3])
                  fm == FromStr(parts[2])
              IN  IF fm = <<>> THEN <<>>
                  ELSE << [slug |-> ToStringLossy(name.stem),
                           frontmatter |-> fm[1],
                           content |-> content,
                           html |-> PushHtml(content)] >>

(* ------------------------------ load_posts ----------------------------- *)
\* posts.sort_by(|a, b| b.date.cmp(&a.date)): a stable sort, newest first.
\* InsertByDate puts p behind every post that does not sort after it.
RECURSIVE InsertByDate(_, _)
InsertByDate(sorted, p) ==
    IF sorted = <<>> THEN <<p>>
    ELSE IF StrLess(Head(sorted).frontmatter.date, p.frontmatter.date)
         THEN <<p>> \o sorted
         ELSE <<Head(sorted)>> \o InsertByDate(Tail(sorted), p)

RECURSIVE SortByDate(_)
SortByDate(posts) ==
    IF posts = <<>> THEN <<>>
    ELSE InsertByDate(SortByDate(SubSeq(posts, 1, Len(posts) - 1)), posts[Len(posts)])

\* a loop that gives up at the first file that does not parse
RECURSIVE ScanEntries_Abort(_, _)
ScanEntries_Abort(entries, dir) ==
    IF entries = <<>> THEN <<>>
    ELSE LET path == Head(entries) IN
         IF path.ext = "md"
         THEN LET post == parse_post(path, Catalogue[dir[path]]) IN
              IF post = <<>> THEN <<>> ELSE post \o ScanEntries_Abort(Tail(entries), dir)
         ELSE ScanEntries_Abort(Tail(entries), dir)

\* the loop of load_posts over the entries of read_dir, in the order
\* `entries` (a sequence of file names) that read_dir yields them
RECURSIVE ScanEntries(_, _)
ScanEntries(entries, dir) ==
    IF entries = <<>> THEN <<>>
    ELSE LET path == Head(entries)
             rest == ScanEntries(Tail(entries), dir)
         IN  IF path.ext = "md"
             THEN parse_post(path, Catalogue[dir[path]]) \o rest
             ELSE rest

\* load_posts before its sort: <<>> when read_dir fails
ScanDir(entries, dir, ok) == IF ok THEN ScanEntries(entries, dir) ELSE <<>>

load_posts(entries, dir, ok) == SortByDate(ScanDir(entries, dir, ok))

\* the orders in which read_dir may yield the files of dir
Present(dir) == {n \in FileNames : dir[n] # NoFile}
Orders(S) == {q \in [1..Cardinality(S) -> S] : \A i, j \in 1..Cardinality(S) : i # j => q[i] # q[j]}
ReadDir(dir) == Orders(Present(dir))

(* ------------------------------ the HashMap ---------------------------- *)
\* HashMap<String, Post>: a function from the slugs it holds to posts
EmptyMap == [s \in {} |-> 0]

\* an insert that keeps the value the key already has
Insert_KeepFirst(m, p) ==
    [s \in (DOMAIN m) \cup {p.slug} |-> IF s \in DOMAIN m THEN m[s] ELSE p]

\* HashMap::insert: the new value replaces one with the same key
Insert(m, p) ==
    [s \in (DOMAIN m) \cup {p.slug} |-> IF s = p.slug THEN p ELSE m[s]]

\* for post in posts { cache.insert(post.slug.clone(), post) }
RECURSIVE InsertAll(_, _)
InsertAll(m, posts) ==
    IF posts = <<>> THEN m ELSE InsertAll(Insert(m, Head(posts)), Tail(posts))

\* HashMap::values: the posts in some order of the keys
Values(m) == {[i \in 1..Cardinality(DOMAIN m) |-> m[q[i]]] : q \in Orders(DOMAIN m)}

\* HashMap::get
Get(m, slug) == IF slug \in DOMAIN m THEN <<m[slug]>> ELSE <<>>

(* ------------------------------ the queries ---------------------------- *)
\* str::to_lowercase, on ASCII
ToLowercase(s) == [i \in 1..Len(s) |-> IF s[i] >= 65 /\ s[i] <= 90 THEN s[i] + 32 ELSE s[i]]

\* str::contains
Contains(s, pat) ==
    \E i \in 0..Len(s) : i + Len(pat) <= Len(s) /\ SubSeq(s, i + 1, i + Len(pat)) = pat

\* the filter of search on q (lines 249-257); Vec::retain is SelectSeq
FilterQuery(posts, q) ==
    IF q # <<>> /\ Trim(q[1]) # <<>>
    THEN LET search_lower == ToLowercase(q[1])
             Keep(post) == \/ Contains(ToLowercase(post.frontmatter.title), search_lower)
                           \/ Contains(ToLowercase(post.content), search_lower)
         IN  SelectSeq(posts, Keep)
    ELSE posts

\* the filter of search on tag (lines 260-268)
FilterTag(posts, tag) ==
    IF tag # <<>> /\ Trim(tag[1]) # <<>>
    THEN LET Keep(post) == /\ post.frontmatter.tags # <<>>
                           /\ \E i \in 1..Len(post.frontmatter.tags[1]) :
                                  post.frontmatter.tags[1][i] = tag[1]
         IN  SelectSeq(posts, Keep)
    ELSE posts

\* Vec<String>::sort of the elements of a HashSet
RECURSIVE SortStrings(_)
SortStrings(S) ==
    IF S = {} THEN <<>>
    ELSE LET least == CHOOSE x \in S : \A y \in S : ~StrLess(y, x)
         IN  <<least>> \o SortStrings(S \ {least})

\* all_tags of home and search: the tags of every post of the map, sorted
AllTags(m) ==
    SortStrings({t \in UNION {{m[s].frontmatter.tags[1][i] : i \in 1..Len(m[s].frontmatter.tags[1])} :
                               s \in {x \in DOMAIN m : m[x].frontmatter.tags # <<>>}} : TRUE})

(* ------------------------------ the state ------------------------------ *)
\* capacity of the channel between the notify callback and watch_files
ChannelCap == 100

Readers == 1..NumReaders
\* holders of the Mutex: nobody, a request handler, or watch_files
Free == 0
WatcherTask == NumReaders + 1

\* the requests of the model: GET /, GET /search?q=&tag=, GET /posts/{slug}
\* q: absent, " ", "ra", "RA", " ra"
Queries == {<<>>, <<<<32>>>>, <<<<114, 97>>>>, <<<<82, 65>>>>, <<<<32, 114, 97>>>>}
\* tag: absent, " ", "x", "X", "y"
TagParams == {<<>>, <<<<32>>>>, <<TagX>>, <<<<88>>>>, <<TagY>>}
SlugParams == {<<97>>, <<REPLACEMENT>>}
Requests ==
    {[handler |-> "home", q |-> <<>>, tag |-> <<>>, slug |-> <<>>]}
    \cup {[handler |-> "search", q |-> q, tag |-> t, slug |-> <<>>] : q \in Queries, t \in TagParams}
    \cup {[handler |-> "post_detail", q |-> <<>>, tag |-> <<>>, slug |-> sl] : sl \in SlugParams}

NoRequest == [handler |-> "none", q |-> <<>>, tag |-> <<>>, slug |-> <<>>]
NoResponse == [status |-> 0, posts |-> <<>>, all_tags |-> <<>>]
IdleReader == [pc |-> "idle", req |-> NoRequest, resp |-> NoResponse]

VARIABLES
    fs,          \* the files of the content directory: name -> index in Catalogue
    dirOk,       \* the content directory exists and can be read
    opsLeft,     \* filesystem operations the environment may still perform
    watching,    \* watcher.watch has succeeded
    queue,       \* events in the channel (watch_files ignores what they hold)
    wpc,         \* where watch_files is
    timer,       \* ticks left of the sleep of watch_files
    new_posts,   \* the Vec of watch_files not yet moved into the map
    post_cache,  \* the HashMap behind the Mutex
    lock,        \* who holds the Mutex
    rd,          \* the request handlers
    \* history of the run, no state of the program:
    sinceLast,   \* ticks since the latest event, up to DebounceTicks
    burst,       \* "none": no event yet; "one": every event so far came less than
                 \* a window after the one before; "many": some event came later
    scanned,     \* what the latest scan pushed, in directory order (before the sort)
    scanOk,      \* read_dir of the latest scan succeeded
    published,   \* the map as the latest completed replace (or main) left it
    pubVer,      \* number of completed replaces
    sent,        \* number of events the closure was called with and let through
    scanSent,    \* the value of sent when the latest scan started
    covered      \* the value of scanSent of the latest completed replace

vars == <<fs, dirOk, opsLeft, watching, queue, wpc, timer, new_posts, post_cache, lock, rd,
          sinceLast, burst, scanned, scanOk, published, pubVer, sent, scanSent, covered>>

envVars == <<fs, dirOk, opsLeft>>
chanVars == <<queue, sinceLast, burst, sent>>
scanVars == <<scanned, scanOk, scanSent>>
pubVars == <<published, pubVer, covered>>

(* ------------------------------ main ----------------------------------- *)
\* main calls load_posts and start_server moves the posts into the map,
\* then spawns watch_files.  An empty or missing directory gives no posts.
Dir(a, fe, ff, txt) == [n \in FileNames |->
    IF n = NameA THEN a ELSE IF n = NameFE THEN fe ELSE IF n = NameFF THEN ff ELSE txt]

\* the directories main is started on in the model
InitialDirs == {Dir(1, 1, 0, 0), Dir(2, 0, 0, 1), Dir(0, 0, 0, 0)}

InitOn(dirs, ops) ==
    /\ dirOk \in BOOLEAN
    /\ fs \in dirs
    /\ (~dirOk => \A n \in FileNames : fs[n] = NoFile)
    /\ opsLeft = ops
    /\ watching = FALSE
    /\ queue = 0
    /\ wpc = "watch"
    /\ timer = 0
    /\ new_posts = <<>>
    /\ \E entries \in ReadDir(fs) :
          /\ scanned = ScanDir(entries, fs, dirOk)
          /\ post_cache = InsertAll(EmptyMap, load_posts(entries, fs, dirOk))
    /\ scanOk = dirOk
    /\ published = post_cache
    /\ pubVer = 0
    /\ lock = Free
    /\ rd = [r \in Readers |-> IdleReader]
    /\ sinceLast = DebounceTicks
    /\ burst = "none"
    /\ sent = 0 /\ scanSent = 0 /\ covered = 0

Init == InitOn(InitialDirs, MaxOps)

(* ------------------------------ the filesystem ------------------------- *)
\* the closure given to RecommendedWatcher::new (lines 131-136)
Qualifies(kind) == kind \in {"Create", "Modify", "Remove"}

\* a closure that drops the event unless watch_files is waiting in recv
Callback_DropBusy(kind) ==
    IF watching /\ Qualifies(kind)
    THEN /\ queue' = IF wpc = "recv" THEN queue + 1 ELSE queue
         /\ burst' = IF burst = "none" \/ (burst = "one" /\ sinceLast < DebounceTicks)
                     THEN "one" ELSE "many"
         /\ sinceLast' = 0
         /\ sent' = sent + 1
    ELSE UNCHANGED chanVars

Callback(kind) ==
    IF watching /\ Qualifies(kind)
    THEN /\ queue < ChannelCap
         /\ queue' = queue + 1
         /\ burst' = IF burst = "none" \/ (burst = "one" /\ sinceLast < DebounceTicks)
                     THEN "one" ELSE "many"
         /\ sinceLast' = 0
         /\ sent' = sent + 1
    ELSE UNCHANGED chanVars

\* some process writes file n (creating it, or over what it held)
FsWrite(n, k) ==
    /\ dirOk /\ opsLeft > 0
    /\ fs' = [fs EXCEPT ![n] = k]
    /\ opsLeft' = opsLeft - 1
    /\ Callback(IF fs[n] = NoFile THEN "Create" ELSE "Modify")
    /\ UNCHANGED <<dirOk, watching, wpc, timer, new_posts, post_cache, lock, rd, scanVars, pubVars>>

\* some process deletes file n
FsRemove(n) ==
    /\ dirOk /\ opsLeft > 0 /\ fs[n] # NoFile
    /\ fs' = [fs EXCEPT ![n] = NoFile]
    /\ opsLeft' = opsLeft - 1
    /\ Callback("Remove")
    /\ UNCHANGED <<dirOk, watching, wpc, timer, new_posts, post_cache, lock, rd, scanVars, pubVars>>

\* some process reads file n: an Access event, which the closure drops
FsAccess(n) ==
    /\ dirOk /\ opsLeft > 0 /\ fs[n] # NoFile
    /\ opsLeft' = opsLeft - 1
    /\ Callback("Access")
    /\ UNCHANGED <<fs, dirOk, watching, wpc, timer, new_posts, post_cache, lock, rd, scanVars, pubVars>>

\* the content directory is removed with what it holds
DirRemoved ==
    /\ dirOk /\ opsLeft > 0
    /\ dirOk' = FALSE
    /\ fs' = [n \in FileNames |-> NoFile]
    /\ opsLeft' = opsLeft - 1
    /\ Callback("Remove")
    /\ UNCHANGED <<watching, wpc, timer, new_posts, post_cache, lock, rd, scanVars, pubVars>>

\* time passes
Tick ==
    /\ (wpc = "sleep" /\ timer > 0) \/ sinceLast < DebounceTicks
    /\ timer' = IF wpc = "sleep" /\ timer > 0 THEN timer - 1 ELSE timer
    /\ sinceLast' = IF sinceLast < DebounceTicks THEN sinceLast + 1 ELSE sinceLast
    /\ UNCHANGED <<envVars, watching, queue, burst, sent, wpc, new_posts, post_cache, lock, rd,
                   scanVars, pubVars>>

(* ------------------------------ the Mutex ------------------------------ *)
\* a lock that does not wait for its holder
MutexLock_NoWait(t) == lock' = t

\* Mutex::lock by task t: waits until nobody holds it
MutexLock(t) == lock = Free /\ lock' = t

(* ------------------------------ watch_files ---------------------------- *)
\* watcher.watch (lines 141-146): on an error watch_files returns
WWatch ==
    /\ wpc = "watch"
    /\ IF dirOk THEN watching' = TRUE /\ wpc' = "recv"
                ELSE watching' = FALSE /\ wpc' = "stopped"
    /\ UNCHANGED <<envVars, chanVars, timer, new_posts, post_cache, lock, rd, scanVars, pubVars>>

\* an event that starts a reload over whatever watch_files is doing
WRecv_Restart ==
    /\ wpc \in {"recv", "load", "lock", "clear", "insert"} /\ queue > 0
    /\ queue' = queue - 1
    /\ timer' = DebounceTicks
    /\ wpc' = "sleep"
    /\ UNCHANGED <<envVars, watching, sinceLast, burst, sent, new_posts, post_cache, lock, rd,
                   scanVars, pubVars>>

\* rx.recv().await yields an event (line 148); the sleep starts (line 150)
WRecv ==
    /\ wpc = "recv" /\ queue > 0
    /\ queue' = queue - 1
    /\ timer' = DebounceTicks
    /\ wpc' = "sleep"
    /\ UNCHANGED <<envVars, watching, sinceLast, burst, sent, new_posts, post_cache, lock, rd,
                   scanVars, pubVars>>

\* watch_files taking the lock before load_posts instead of after it
WWake_Locked ==
    /\ wpc = "sleep" /\ timer = 0
    /\ lock = Free /\ lock' = WatcherTask
    /\ wpc' = "load"
    /\ UNCHANGED <<envVars, watching, chanVars, timer, new_posts, post_cache, rd, scanVars, pubVars>>

\* the sleep is over (line 150)
WWake ==
    /\ wpc = "sleep" /\ timer = 0
    /\ wpc' = "load"
    /\ UNCHANGED <<envVars, watching, chanVars, timer, new_posts, post_cache, lock, rd, scanVars, pubVars>>

\* let new_posts = load_posts() (line 153): synchronous code without an
\* await, taken as one step that reads the directory as it is; read_dir
\* yields the files in any order
WLoad ==
    /\ wpc = "load"
    /\ \E entries \in ReadDir(fs) :
          /\ new_posts' = load_posts(entries, fs, dirOk)
          /\ scanned' = ScanDir(entries, fs, dirOk)
    /\ scanOk' = dirOk
    /\ scanSent' = sent
    /\ wpc' = "lock"
    /\ UNCHANGED <<envVars, watching, chanVars, timer, post_cache, lock, rd, pubVars>>

\* watch_files going on to clear the map without the lock
WLock_NoMutex ==
    /\ wpc = "lock"
    /\ wpc' = "clear"
    /\ UNCHANGED <<envVars, watching, chanVars, timer, new_posts, post_cache, lock, rd, scanVars, pubVars>>

\* let mut cache = post_cache.lock().unwrap() (line 155)
WLock ==
    /\ wpc = "lock"
    /\ MutexLock(WatcherTask)
    /\ wpc' = "clear"
    /\ UNCHANGED <<envVars, watching, chanVars, timer, new_posts, post_cache, rd, scanVars, pubVars>>

\* watch_files without the call of clear
WClear_Skip ==
    /\ wpc = "clear"
    /\ wpc' = "insert"
    /\ UNCHANGED <<envVars, watching, chanVars, timer, new_posts, post_cache, lock, rd, scanVars, pubVars>>

\* cache.clear() (line 156)
WClear ==
    /\ wpc = "clear"
    /\ post_cache' = EmptyMap
    /\ wpc' = "insert"
    /\ UNCHANGED <<envVars, watching, chanVars, timer, new_posts, lock, rd, scanVars, pubVars>>

\* one turn of the loop of lines 157-159
WInsert ==
    /\ wpc = "insert" /\ new_posts # <<>>
    /\ post_cache' = Insert(post_cache, Head(new_posts))
    /\ new_posts' = Tail(new_posts)
    /\ UNCHANGED <<envVars, watching, chanVars, timer, wpc, lock, rd, scanVars, pubVars>>

\* the loop is over; the guard is dropped at the end of the body (line 161)
WUnlock ==
    /\ wpc = "insert" /\ new_posts = <<>>
    /\ lock' = Free
    /\ wpc' = "recv"
    /\ published' = post_cache
    /\ pubVer' = pubVer + 1
    /\ covered' = scanSent
    /\ UNCHANGED <<envVars, watching, chanVars, timer, new_posts, post_cache, rd, scanVars>>

(* ------------------------------ the handlers --------------------------- *)
\* handler r answers req with resp and keeps its guard until it returns
Answer(r, req, resp) ==
    /\ rd' = [rd EXCEPT ![r] = [pc |-> "done", req |-> req, resp |-> resp]]
    /\ UNCHANGED <<envVars, watching, chanVars, wpc, timer, new_posts, post_cache, scanVars, pubVars>>

\* what home may answer when the map is m, over the orders of m.values()
HomeResponses(m) ==
    {[status |-> 200, posts |-> SortByDate(posts_vec), all_tags |-> AllTags(m)] :
        posts_vec \in Values(m)}

\* a search that keeps the posts that pass either filter
SearchResponses_Or(m, q, tag) ==
    {[status |-> 200,
      posts |-> SortByDate(SelectSeq(filtered_posts,
                    LAMBDA p : \/ FilterQuery(<<p>>, q) # <<>> /\ q # <<>>
                               \/ FilterTag(<<p>>, tag) # <<>> /\ tag # <<>>)),
      all_tags |-> AllTags(m)] : filtered_posts \in Values(m)}

\* what search may answer when the map is m
SearchResponses(m, q, tag) ==
    {[status |-> 200, posts |-> SortByDate(FilterTag(FilterQuery(filtered_posts, q), tag)),
      all_tags |-> AllTags(m)] : filtered_posts \in Values(m)}

\* a post_detail that answers 200 whether or not it found the post
PostDetailResponses_Ok(m, slug) ==
    {[status |-> 200, posts |-> Get(m, slug), all_tags |-> <<>>]}

\* what post_detail answers when the map is m: the post, or 404
PostDetailResponses(m, slug) ==
    LET found == Get(m, slug) IN
    {[status |-> IF found # <<>> THEN 200 ELSE 404, posts |-> found, all_tags |-> <<>>]}

\* home (lines 164-198), on a task r that is free: it waits for the lock,
\* sorts the values and collects the tags
home(r, req) ==
    /\ rd[r].pc = "idle" /\ req.handler = "home"
    /\ MutexLock(r)
    /\ \E resp \in HomeResponses(post_cache) : Answer(r, req, resp)

\* a search that collects all_tags from the posts it kept
search_FilteredTags(r, req) ==
    /\ rd[r].pc = "idle" /\ req.handler = "search"
    /\ MutexLock(r)
    /\ \E resp \in SearchResponses(post_cache, req.q, req.tag) :
          Answer(r, req, [resp EXCEPT !.all_tags =
              SortStrings(UNION {{resp.posts[i].frontmatter.tags[1][j] :
                                     j \in 1..Len(resp.posts[i].frontmatter.tags[1])} :
                                 i \in {k \in 1..Len(resp.posts) :
                                            resp.posts[k].frontmatter.tags # <<>>}})])

\* search (lines 240-309)
search(r, req) ==
    /\ rd[r].pc = "idle" /\ req.handler = "search"
    /\ MutexLock(r)
    /\ \E resp \in SearchResponses(post_cache, req.q, req.tag) : Answer(r, req, resp)

\* a post_detail that takes the post out of the map (remove for get)
post_detail_Remove(r, req) ==
    /\ rd[r].pc = "idle" /\ req.handler = "post_detail"
    /\ MutexLock(r)
    /\ \E resp \in PostDetailResponses(post_cache, req.slug) :
          rd' = [rd EXCEPT ![r] = [pc |-> "done", req |-> req, resp |-> resp]]
    /\ post_cache' = [s \in (DOMAIN post_cache) \ {req.slug} |-> post_cache[s]]
    /\ UNCHANGED <<envVars, watching, chanVars, wpc, timer, new_posts, scanVars, pubVars>>

\* post_detail (lines 200-229)
post_detail(r, req) ==
    /\ rd[r].pc = "idle" /\ req.handler = "post_detail"
    /\ MutexLock(r)
    /\ \E resp \in PostDetailResponses(post_cache, req.slug) : Answer(r, req, resp)

\* the handler returns: its guard is dropped
Respond(r) ==
    /\ rd[r].pc = "done"
    /\ lock' = Free
    /\ rd' = [rd EXCEPT ![r] = IdleReader]
    /\ UNCHANGED <<envVars, watching, chanVars, wpc, timer, new_posts, post_cache, scanVars, pubVars>>

\* the environment, writing the files `names` with the texts `texts`
Env(names, texts) ==
    \/ \E n \in names, k \in texts : FsWrite(n, k)
    \/ \E n \in names : FsRemove(n)
    \/ \E n \in names : FsAccess(n)
    \/ DirRemoved
    \/ Tick

watch_files == WWatch \/ WRecv \/ WWake \/ WLoad \/ WLock \/ WClear \/ WInsert \/ WUnlock

Handlers(reqs) ==
    \/ \E r \in Readers, req \in reqs : home(r, req) \/ search(r, req) \/ post_detail(r, req)
    \/ \E r \in Readers : Respond(r)

(* Spec: the whole program, watch_files against the handlers, over a small  *)
(* directory: two files, one well-formed text and one malformed.            *)
SmallNames == {NameA, NameFE}
SmallTexts == {1, 4}
SmallRequests ==
    {req \in Requests : /\ req.tag = <<>> /\ req.slug # <<REPLACEMENT>>
                         /\ (req.handler = "search" => req.q = <<<<114, 97>>>>)}

Next == Env(SmallNames, SmallTexts) \/ watch_files \/ Handlers(SmallRequests)

Spec == Init /\ [][Next]_vars

(* SpecLive: the program over one file, with GET / as the only request,   *)
(* time that passes, a watch_files task that is scheduled (its synchronous  *)
(* steps whenever they can run, the lock whenever it is free again and      *)
(* again) and handlers that return.                                         *)
LiveDirs == {Dir(0, 0, 0, 0), Dir(1, 0, 0, 0)}

InitLive == InitOn(LiveDirs, MaxOps)

LiveRequests == {req \in Requests : req.handler = "home"}

LiveHandlers ==
    \E r \in Readers : (\E req \in LiveRequests : home(r, req)) \/ Respond(r)

NextLive == Env({NameA}, {1}) \/ watch_files \/ LiveHandlers

Fairness ==
    /\ WF_vars(Tick)
    /\ WF_vars(WRecv \/ WWake \/ WLoad \/ WClear \/ WInsert \/ WUnlock)
    /\ SF_vars(WLock)
    /\ \A r \in Readers : WF_vars(Respond(r))

SpecLive == InitLive /\ [][NextLive]_vars /\ Fairness

(* SpecLoad: main and two reloads by watch_files, over every directory of   *)
(* the model, without handlers.                                             *)
LoadDirs == {Dir(a, fe, ff, txt) : a \in 0..NumContents, fe \in 0..NumContents,
                                   ff \in 0..NumContents, txt \in {0, 1}}

InitLoad == InitOn(LoadDirs, 2)

\* some process writes a file again with the text it holds
Touch == \E n \in FileNames : fs[n] # NoFile /\ FsWrite(n, fs[n])

NextLoad == Touch \/ Tick \/ watch_files

SpecLoad == InitLoad /\ [][NextLoad]_vars

(* SpecQuery: the handlers over the map that main builds from a directory   *)
(* of well-formed files, with no change to the directory.                   *)
QueryDirs == {Dir(a, fe, 0, 0) : a \in 0..3, fe \in 0..3}

InitQuery == InitOn(QueryDirs, 0)

NextQuery == Handlers(Requests)

SpecQuery == InitQuery /\ [][NextQuery]_vars

(* ======================================================================= *)
(* The properties                                                          *)
(* ======================================================================= *)
\* watch_files holds the lock and is replacing the contents of the map
Replacing == wpc \in {"clear", "insert"}

\* the map that the reload in progress is putting in place
Incoming == InsertAll(EmptyMap, SortByDate(scanned))

\* the answers a request may get from a map m
ResponsesOn(req, m) ==
    CASE req.handler = "home" -> HomeResponses(m)
      [] req.handler = "search" -> SearchResponses(m, req.q, req.tag)
      [] req.handler = "post_detail" -> PostDetailResponses(m, req.slug)
      [] OTHER -> {}

\* handler r reads the map in this step
Reads(r) == rd[r].pc = "idle" /\ rd'[r].pc = "done"

\* C1 - Atomic visibility: whatever a handler reads while watch_files
\* reloads, its answer is the answer on the whole map as it was before the
\* replace or on the whole map that the replace puts in place; never an
\* answer on a cleared or half-filled map.
AtomicVisibility ==
    [][\A r \in Readers : Reads(r) =>
          rd'[r].resp \in ResponsesOn(rd'[r].req, published)
                           \cup (IF Replacing THEN ResponsesOn(rd'[r].req, Incoming) ELSE {})]_vars

\* a handler has read the old posts while watch_files waits for the lock
\* with a different set of posts in hand
AtomicVisibilityWitness ==
    \E r \in Readers :
        /\ rd[r].pc = "done" /\ lock = r /\ wpc = "lock"
        /\ rd[r].req.handler = "home" /\ rd[r].resp.posts # <<>>
        /\ Incoming # published

\* C2 - Debounce collapse, as claimed: when all the events so far form
\* one burst (each less than a window after the one before) and
\* watch_files has nothing left to do, it has reloaded exactly once.
DebounceCollapse ==
    (burst = "one" /\ wpc = "recv" /\ queue = 0) => pubVer = 1

\* C3 - Debounce timer reset, as claimed: watch_files leaves its delay
\* and starts to reload only when a full window has passed since the
\* latest event.
DebounceTimerReset ==
    [][(wpc = "sleep" /\ wpc' = "load") => sinceLast >= DebounceTicks]_vars

\* C4 - Linearizable publication: a handler reads under the lock, so its
\* read comes after every replace that was complete when it started; its
\* answer is the answer on the map as the latest completed replace left
\* it, never on an older one.
LinearizablePublication ==
    \A r \in Readers : rd[r].pc = "done" =>
        rd[r].resp \in ResponsesOn(rd[r].req, published)

\* a handler that took the lock after the second replace was complete has
\* got posts
LinearizablePublicationWitness ==
    \E r \in Readers :
        /\ rd[r].pc = "done" /\ lock = r /\ pubVer = 2
        /\ rd[r].req.handler = "home" /\ rd[r].resp.posts # <<>>

\* C5 - Directory unavailable, as claimed: a reload that could not scan
\* the directory leaves the map as the previous snapshot.
KeepsLastGoodSnapshot ==
    (~scanOk /\ wpc = "insert") => post_cache = published

\* C7 - Readers are not blocked by the scan: watch_files holds the lock
\* only while it replaces the contents of the map; while it is in
\* load_posts the map is the last published one, a request can take the
\* lock unless another handler holds it, and what a handler has read is
\* an answer on the last published map.
ReadersNotBlockedByScan ==
    /\ ~Replacing => lock # WatcherTask
    /\ wpc = "load" => post_cache = published
    /\ \A r \in Readers :
          /\ (wpc = "load" /\ rd[r].pc = "idle" /\ lock \notin Readers)
                => \A req \in Requests :
                      ENABLED (home(r, req) \/ search(r, req) \/ post_detail(r, req))
          /\ (wpc = "load" /\ rd[r].pc = "done")
                => rd[r].resp \in ResponsesOn(rd[r].req, published)

\* a handler holds the lock and has its posts while watch_files is in load_posts
ReadersNotBlockedByScanWitness ==
    \E r \in Readers :
        /\ wpc = "load" /\ lock = r /\ rd[r].pc = "done"
        /\ rd[r].resp.status = 200 /\ rd[r].resp.posts # <<>>

\* the slugs of a sequence of posts
SlugsOf(posts) == {posts[i].slug : i \in 1..Len(posts)}

\* C8 - Whole-set replacement: once the loop of a reload is over, and
\* until the next one clears the map, the map holds exactly the slugs of
\* the posts of that reload's scan, each with a post of that scan; a slug
\* of the previous snapshot that the scan did not produce is gone.
WholeSetReplacement ==
    ((wpc = "insert" /\ new_posts = <<>>) \/ (pubVer >= 1 /\ wpc \in {"recv", "sleep", "load"}))
        => /\ DOMAIN post_cache = SlugsOf(scanned)
           /\ \A s \in DOMAIN post_cache : \E i \in 1..Len(scanned) : post_cache[s] = scanned[i]

\* the loop of a reload is over, the map is not empty, and a slug of the
\* previous snapshot is no longer in it
WholeSetReplacementWitness ==
    /\ wpc = "insert" /\ new_posts = <<>>
    /\ post_cache # EmptyMap
    /\ \E s \in DOMAIN published : s \notin DOMAIN post_cache

\* the files that load_posts takes for posts, and the well-formed ones:
\* three segments, metadata that decodes, with a title and a date
SourceFiles == {n \in FileNames : n.ext = "md" /\ fs[n] # NoFile}

WellFormed(file) ==
    /\ file.utf8
    /\ Len(file.segs) >= 3
    /\ file.segs[2].yaml /\ file.segs[2].title # <<>> /\ file.segs[2].date # <<>>

WellFormedFiles == {n \in SourceFiles : WellFormed(Catalogue[fs[n]])}

\* the map is the outcome of the scan that `scanned` records
StoreOfScan == wpc \in {"watch", "recv", "sleep", "load", "stopped"}
               \/ (wpc = "insert" /\ new_posts = <<>>)

\* C6 - Parse skip, not abort: a scan yields one post for each well-formed
\* file of the directory, with its slug, title and date, and none for a
\* malformed one; the map that comes of the scan holds exactly the slugs
\* of the well-formed files.  (Under SpecLoad the directory keeps its
\* files, so every scan is a scan of fs.)
ParseSkipNotAbort ==
    /\ Len(scanned) = Cardinality(WellFormedFiles)
    /\ \A n \in WellFormedFiles : \E i \in 1..Len(scanned) :
          /\ scanned[i].slug = ToStringLossy(n.stem)
          /\ scanned[i].frontmatter.title = Catalogue[fs[n]].segs[2].title[1]
          /\ scanned[i].frontmatter.date = Catalogue[fs[n]].segs[2].date[1]
    /\ StoreOfScan => DOMAIN post_cache = {ToStringLossy(n.stem) : n \in WellFormedFiles}

\* a reload of a directory with one well-formed and one malformed file is
\* over, and the map holds one post
ParseSkipNotAbortWitness ==
    /\ pubVer = 1 /\ wpc = "recv"
    /\ Cardinality(SourceFiles) = 2 /\ Cardinality(WellFormedFiles) = 1
    /\ Cardinality(DOMAIN post_cache) = 1

\* C9 - Query result ordering, as claimed: the posts of a listing are in
\* descending order of date, and posts of the same date in ascending
\* order of slug.
QueryResultOrdering ==
    \A r \in Readers : (rd[r].pc = "done" /\ rd[r].req.handler \in {"home", "search"}) =>
        \A i, j \in 1..Len(rd[r].resp.posts) : i < j =>
            LET a == rd[r].resp.posts[i]
                b == rd[r].resp.posts[j]
            IN  \/ StrLess(b.frontmatter.date, a.frontmatter.date)
                \/ (a.frontmatter.date = b.frontmatter.date /\ StrLess(a.slug, b.slug))

\* the places of the posts of slug s in the scan
ScanIndex(s) == {i \in 1..Len(scanned) : scanned[i].slug = s}

AsSet(seq) == {seq[i] : i \in 1..Len(seq)}

\* a parameter of the query string that is there and not blank
Supplied(param) == param # <<>> /\ Trim(param[1]) # <<>>

\* the free-text predicate: the title or the body holds the text, without
\* regard to case
TextPredicate(p, text) ==
    \/ Contains(ToLowercase(p.frontmatter.title), ToLowercase(text))
    \/ Contains(ToLowercase(p.content), ToLowercase(text))

\* the tag predicate: the post has tags and one of them is the tag
TagPredicate(p, tag) ==
    /\ p.frontmatter.tags # <<>>
    /\ tag \in AsSet(p.frontmatter.tags[1])

\* the posts of a map
PostsIn(m) == {m[s] : s \in DOMAIN m}

\* C11 - Query conjunction: when q and tag are both supplied, search
\* answers with exactly the posts of the map that pass the free-text
\* predicate and the tag predicate, each once.
QueryConjunction ==
    \A r \in Readers :
        (/\ rd[r].pc = "done" /\ rd[r].req.handler = "search"
         /\ Supplied(rd[r].req.q) /\ Supplied(rd[r].req.tag)) =>
            /\ AsSet(rd[r].resp.posts) =
                  {p \in PostsIn(post_cache) : /\ TextPredicate(p, rd[r].req.q[1])
                                               /\ TagPredicate(p, rd[r].req.tag[1])}
            /\ Len(rd[r].resp.posts) = Cardinality(AsSet(rd[r].resp.posts))

\* two posts pass the free text "ra", one of them has the tag x, and
\* search with both answers with that one
QueryConjunctionWitness ==
    \E r \in Readers :
        /\ rd[r].pc = "done" /\ rd[r].req.handler = "search"
        /\ rd[r].req.q = <<<<114, 97>>>> /\ rd[r].req.tag = <<TagX>>
        /\ Cardinality({p \in PostsIn(post_cache) : TextPredicate(p, <<114, 97>>)}) = 2
        /\ Len(rd[r].resp.posts) = 1

\* C12 - Filter predicates, as claimed: search answers with the posts
\* that pass the free-text predicate on the trimmed q (all, when q is
\* absent or blank) and the tag predicate on tag (all, when tag is absent
\* or blank).
FilterPredicates ==
    \A r \in Readers : (rd[r].pc = "done" /\ rd[r].req.handler = "search") =>
        AsSet(rd[r].resp.posts) =
            {p \in PostsIn(post_cache) :
                /\ Supplied(rd[r].req.q) => TextPredicate(p, Trim(rd[r].req.q[1]))
                /\ Supplied(rd[r].req.tag) => TagPredicate(p, rd[r].req.tag[1])}

\* C13 - Single writer, pure reads: the map changes only in a step of
\* watch_files that holds the lock and replaces its contents; a step of a
\* handler (home, search, post_detail with or without the post, the
\* return) leaves the map as it is.
SingleWriterPureReads ==
    [][/\ post_cache' # post_cache => (Replacing /\ lock = WatcherTask)
       /\ rd' # rd => post_cache' = post_cache]_vars

\* post_detail has missed on a map that holds posts, and the map is still
\* the last published one
SingleWriterPureReadsWitness ==
    \E r \in Readers :
        /\ rd[r].pc = "done" /\ rd[r].req.handler = "post_detail"
        /\ rd[r].resp.status = 404
        /\ post_cache # EmptyMap /\ post_cache = published /\ pubVer >= 1

\* C16 - Lookup miss is not an error: post_detail answers 404 without a
\* post when the slug is no key of the map it reads, and 200 with the
\* post of that key when it is one, whatever the directory holds by then.
LookupMiss ==
    \A r \in Readers : (rd[r].pc = "done" /\ rd[r].req.handler = "post_detail") =>
        IF rd[r].req.slug \in DOMAIN post_cache
        THEN rd[r].resp.status = 200 /\ rd[r].resp.posts = <<post_cache[rd[r].req.slug]>>
        ELSE rd[r].resp.status = 404 /\ rd[r].resp.posts = <<>>

\* post_detail has answered 404 for a slug that the map lacks while a
\* well-formed file of that slug is in the directory (not yet reloaded)
LookupMissWitness ==
    \E r \in Readers :
        /\ rd[r].pc = "done" /\ rd[r].req.handler = "post_detail"
        /\ rd[r].req.slug = <<97>> /\ rd[r].resp.status = 404
        /\ fs[NameA] = 1 /\ watching

\* C14 - Idempotent reload: a reload that follows another reload, over a
\* directory whose files have not changed in between, leaves in the map
\* the posts that the earlier reload left there.
IdempotentReload ==
    (wpc = "insert" /\ new_posts = <<>> /\ pubVer >= 1) => post_cache = published

\* C15 - all_tags: home and search answer with the tags of all the posts
\* of the map they read (a post without tags adds none), each tag once,
\* in ascending order, whatever q and tag the request carries.
AllTagsUnion ==
    \A r \in Readers : (rd[r].pc = "done" /\ rd[r].req.handler \in {"home", "search"}) =>
        LET tags == rd[r].resp.all_tags IN
        /\ AsSet(tags) = UNION {AsSet(p.frontmatter.tags[1]) :
                                   p \in {x \in PostsIn(post_cache) : x.frontmatter.tags # <<>>}}
        /\ \A i, j \in 1..Len(tags) : i < j => StrLess(tags[i], tags[j])

\* search has kept no post (tag "X" matches none) of a map that holds a
\* post without tags and posts with the tags x and y, and lists both tags
AllTagsUnionWitness ==
    \E r \in Readers :
        /\ rd[r].pc = "done" /\ rd[r].req.handler = "search"
        /\ rd[r].req.tag = <<<<88>>>>
        /\ rd[r].resp.posts = <<>>
        /\ rd[r].resp.all_tags = <<TagX, TagY>>
        /\ \E p \in PostsIn(post_cache) : p.frontmatter.tags = <<>>

\* the maps that a load of the directory as it is now would build
StoresOfDirectory ==
    {InsertAll(EmptyMap, load_posts(entries, fs, dirOk)) : entries \in ReadDir(fs)}

\* C18 - Quiescent consistency: whenever watch_files is subscribed and
\* waits in recv with no event in the channel, the map holds the posts
\* that parsing the files now in the directory gives, also when a file
\* changed between the load of main and the subscription.
QuiescentConsistency ==
    (watching /\ wpc = "recv" /\ queue = 0) => post_cache \in StoresOfDirectory

\* C19 - Serialized reloads: watch_files scans the directory only when
\* the posts of its earlier scan are all in the map, the lock is released
\* and that map is published; and each map it publishes, one at a time,
\* is the map of its latest scan, so no earlier scan is put back over a
\* later one.
SerializedReloads ==
    [][/\ (wpc # "lock" /\ wpc' = "lock") =>
            (new_posts = <<>> /\ lock # WatcherTask /\ post_cache = published)
       /\ pubVer' # pubVer =>
            (pubVer' = pubVer + 1 /\ published' = Incoming /\ lock = WatcherTask)]_vars

\* a second reload has put its posts in the map, which differs from the
\* map that the first reload published
SerializedReloadsWitness ==
    /\ pubVer = 1 /\ wpc = "insert" /\ new_posts = <<>>
    /\ post_cache = Incoming /\ post_cache # published

\* C17 - Eventual freshness: with a scheduled watch_files, each event let
\* through by the closure after the subscription (the k-th, for every k)
\* is followed by a completed replace whose scan started after the event,
\* also when the event came during the sleep or during a reload.
EventualFreshness ==
    \A k \in 1..MaxOps : (sent >= k) ~> (covered >= k)

\* two events have each been followed by a replace of a scan that began
\* after them, the second scan after the first replace was complete
EventualFreshnessWitness ==
    /\ sent = 2 /\ covered = 2 /\ pubVer = 2
    /\ wpc = "recv" /\ queue = 0
====
